---- MODULE Spec2Model ----
(***************************************************************************)
(* Model of the plugin job controller (PluginJobCtl) of                    *)
(* pkg/microservice/aslan/core/common/service/git/hook.go: one Kubernetes  *)
(* Job is built, submitted, polled and harvested per Run.                  *)
(*                                                                         *)
(* The controller's own code (prepare, Run, run, wait, complete) is        *)
(* translated from the source.  The helpers it calls (GetK8sClients,       *)
(* buildPlainJob, ensureDeleteJob, createOrUpdateRegistrySecrets,          *)
(* CreateJob, waitJobStart, waitPlainJobEnd, getJobOutputFromTerminalMsg,  *)
(* saveContainerLog, logError) have no body in the source tree; they are   *)
(* modelled from their documented interface.                               *)
(***************************************************************************)
EXTENDS Integers, Sequences, FiniteSets, TLC

\* ------------------------------------------------------------------ bounds

\* How many times Run may be called on one controller.
MaxRuns == 2

\* How many JobInfo records the model lets the collection hold.
MaxInfos == 2

\* How many times one goroutine may call GetHookSecret.
MaxHookCalls == 2

\* ------------------------------------------------------- program constants

\* prepare(): c.jobTaskSpec.Properties.Timeout = 600
DefaultTimeout == 600

MinRequest == "min"
LocalClusterID == "local"
ZadigNamespace == "zadig"
AttachedClusterNamespace == "koderover-agent"

StatusPending == "Pending"
StatusRunning == "Running"
StatusSucceeded == "Succeeded"
StatusFailed == "Failed"
StatusTimeout == "Timeout"
StatusCancelled == "Cancelled"

\* err.Error() of a failed output extraction and of a failed log save
ErrOutputs == "get job outputs error"
ErrLog == "save container log error"

TerminalStatuses == {StatusSucceeded, StatusFailed, StatusTimeout, StatusCancelled}

\* ----------------------------------------------------------------- inputs

\* The controllers of the model; Spec drives the first one only.
Ctls == {"c1", "c2"}
Driven == {"c1"}

\* string(c.job.JobType) and c.job.K8sJobName of each controller
JobType == "plugin"
K8sJobName == [c \in Ctls |-> IF c = "c1" THEN "job-a" ELSE "job-b"]

TimeoutInputs == {-1, 0, 30}
RequestInputs == {"", "high"}
ClusterInputs == {"", LocalClusterID, "remote"}

\* c.jobTaskSpec.Plugin.Image, as registry host and repository
Image == [host |-> "reg-a", repo |-> "busybox"]
RegistryInputs == {"reg-a", "reg-b"}

\* c.job.StartTime and c.job.EndTime as the caller left them: both unset,
\* both set, and a start with no end yet
NoTimes == [StartTime |-> 0, EndTime |-> 0]
TimeInputs == {NoTimes, [StartTime |-> 3, EndTime |-> 7],
               [StartTime |-> 7, EndTime |-> 0]}

\* Goroutines calling GetHookSecret
HookCallers == {"g1", "g2", "g3"}

\* crypto.AesEncrypt("hook"): a token, or an error
AesResults == {"tokenA", "tokenB", "error"}

\* The package-level once and secret before any call, and the callers at rest
HookInit ==
    [done |-> FALSE, m |-> "free", secret |-> "", encrypts |-> 0,
     pc |-> [g \in HookCallers |-> "idle"],
     token |-> [g \in HookCallers |-> ""],
     calls |-> [g \in HookCallers |-> 0],
     rets |-> {}]

VARIABLES
    pc,          \* where each controller's calling goroutine stands
    runs,        \* Run calls started on each controller
    props,       \* c.jobTaskSpec.Properties
    props0,      \* the Properties each controller was constructed with
    customOK,    \* every CustomLabels/CustomAnnotations value is a string
    kube,        \* c.kubeclient: the cluster it talks to, "nil" before run()
    status,      \* c.job.Status
    jobError,    \* c.job.Error
    outputs,     \* job outputs held by the workflow context
    logs,        \* container logs in durable storage, by owner
    timer,       \* the time.After channel of wait()
    cancelled,   \* ctx.Done() of the current Run is closed
    pending,     \* detached cleanup goroutines that have not run yet
    cluster,     \* live Job objects of all clusters
    secrets,     \* registry Secret objects of all clusters
    \* history of the current Run
    statusAtRun, \* c.job.Status when Run was entered
    errorAtRun,  \* c.job.Error when Run was entered
    runErr,      \* what run() returned: "none" (not yet), "nil", or the failed step
    startStatus, \* what waitJobStart returned, "none" before
    ackCount,    \* invocations of c.ack
    ackStatus,   \* c.job.Status the ack callback saw, "none" before
    calls,       \* cluster and storage calls of the calling goroutine, in order
    removed,     \* owners of the Jobs the ensureDeleteJob of run() removed
    harvest,     \* outcomes of output extraction and log save, in order
    scheduled,   \* cleanup goroutines spawned
    \* outside the Run
    times,       \* job.StartTime and job.EndTime, written by the caller
    jobInfos,    \* the JobInfo collection: the records created, in order
    hook         \* once, secret and the callers of GetHookSecret

vars == <<pc, runs, props, props0, customOK, kube, status, jobError, outputs,
          logs, timer, cancelled, pending, cluster, secrets, statusAtRun,
          errorAtRun, runErr, startStatus, ackCount, ackStatus, calls, removed,
          harvest, scheduled, times, jobInfos, hook>>

\* ---------------------------------------------------------------- helpers

\* The label, were it built from the job type alone
JobLabelTypeOnly(c) == <<JobType, "">>

\* JobLabel{JobType, JobName} of a controller
JobLabel(c) == <<JobType, K8sJobName[c]>>

\* Jobs of one cluster and namespace carrying a label
Labelled(jobs, cl, ns, label) ==
    {j \in jobs : j.cl = cl /\ j.ns = ns /\ j.label = label}

\* ensureDeleteJob(namespace, jobLabel, kubeClient): deleteByLabel
EnsureDeleteJob(jobs, cl, ns, label) == jobs \ Labelled(jobs, cl, ns, label)

\* getMatchedRegistries(image, registries)
GetMatchedRegistries(image, regs) == {r \in regs : r = image.host}

\* createOrUpdateRegistrySecrets(namespace, registries, kubeClient)
RegistrySecrets(cl, ns, regs) == {<<cl, ns, r>> : r \in regs}

\* The Job manifest run() submits: buildPlainJob(...) with job.Namespace set
BuiltJob(c) ==
    [cl |-> kube[c], ns |-> props[c].Namespace, label |-> JobLabel(c),
     owner |-> <<c, runs[c]>>, phase |-> "pending", msg |-> "none"]

\* logError(job, msg, logger): the error is logged and attached to the job
LogError(c, msg) == jobError' = [jobError EXCEPT ![c] = msg]

\* prepare(): pure defaulting of timeout, resource tier and cluster ID
PrepareTimeoutStrict(p) ==
    [p EXCEPT !.Timeout = IF @ < 0 THEN DefaultTimeout ELSE @,
              !.ResourceRequest = IF @ = "" THEN MinRequest ELSE @,
              !.ClusterID = IF @ = "" THEN LocalClusterID ELSE @]

Prepare(p) ==
    [p EXCEPT !.Timeout = IF @ <= 0 THEN DefaultTimeout ELSE @,
              !.ResourceRequest = IF @ = "" THEN MinRequest ELSE @,
              !.ClusterID = IF @ = "" THEN LocalClusterID ELSE @]

\* run(): the namespace of the target cluster
NamespaceOf(clusterID) ==
    IF clusterID = LocalClusterID THEN ZadigNamespace
    ELSE AttachedClusterNamespace

\* Run(): wait and complete follow only a nil error of run()
AfterRunIgnoringError(err) == "wait"

AfterRun(err) == IF err # "nil" THEN "returned" ELSE "wait"

\* ------------------------------------------------------------------- Init

\* Jobs earlier tasks left in a cluster: at most one per label, one of them
\* with the label of the first controller
PreJobs(cl) ==
    {[cl |-> cl, ns |-> NamespaceOf(cl), label |-> <<JobType, n>>,
      owner |-> <<"pre", 0>>, phase |-> "succeeded", msg |-> "none"] :
        n \in {"job-a", "job-z"}}

\* Every combination of the inputs prepare() reads
AllProps ==
    [Timeout : TimeoutInputs, ResourceRequest : RequestInputs,
     ClusterID : ClusterInputs, Namespace : {""},
     Registries : {RegistryInputs}]

\* The specs a full Run is followed from: nothing set, or everything set
InitProps ==
    {p \in AllProps : \/ p.Timeout = 0 /\ p.ResourceRequest = "" /\ p.ClusterID = ""
                      \/ p.Timeout = 30 /\ p.ResourceRequest = "high"
                                        /\ p.ClusterID = "remote"}

IdleProps ==
    [Timeout |-> 0, ResourceRequest |-> "", ClusterID |-> "",
     Namespace |-> "", Registries |-> RegistryInputs]

InitWith(propsSet) ==
    /\ pc = [c \in Ctls |-> "idle"]
    /\ runs = [c \in Ctls |-> 0]
    /\ \E p \in propsSet :
        /\ props = [c \in Ctls |-> IF c \in Driven THEN p ELSE IdleProps]
        /\ cluster \in SUBSET PreJobs(Prepare(p).ClusterID)
    /\ props0 = props
    /\ \E b \in BOOLEAN : customOK = [c \in Ctls |-> IF c \in Driven THEN b ELSE TRUE]
    /\ kube = [c \in Ctls |-> "nil"]
    /\ status = [c \in Ctls |-> StatusPending]
    /\ jobError = [c \in Ctls |-> ""]
    /\ outputs = [c \in Ctls |-> {}]
    /\ logs = {}
    /\ timer = [c \in Ctls |-> "unset"]
    /\ cancelled = [c \in Ctls |-> FALSE]
    /\ pending = [c \in Ctls |-> 0]
    /\ secrets = {}
    /\ statusAtRun = [c \in Ctls |-> StatusPending]
    /\ errorAtRun = [c \in Ctls |-> ""]
    /\ runErr = [c \in Ctls |-> "none"]
    /\ startStatus = [c \in Ctls |-> "none"]
    /\ ackCount = [c \in Ctls |-> 0]
    /\ ackStatus = [c \in Ctls |-> "none"]
    /\ calls = [c \in Ctls |-> <<>>]
    /\ removed = [c \in Ctls |-> {}]
    /\ harvest = [c \in Ctls |-> <<>>]
    /\ scheduled = [c \in Ctls |-> 0]
    /\ jobInfos = <<>>
    /\ hook = HookInit

Init ==
    /\ InitWith(InitProps)
    /\ times = [c \in Ctls |-> NoTimes]

\* ------------------------------------------------------------ Run and run

\* Variables only wait(), complete() and the environment touch
waitVars == <<outputs, logs, timer, pending, startStatus, ackCount, ackStatus,
              harvest, scheduled, times, jobInfos, hook>>

\* Run() is entered: a fresh context, then prepare()
RunPrepare(c) ==
    /\ pc[c] \in {"idle", "returned"}
    /\ runs[c] < MaxRuns
    /\ runs' = [runs EXCEPT ![c] = @ + 1]
    /\ props' = [props EXCEPT ![c] = Prepare(@)]
    /\ pc' = [pc EXCEPT ![c] = "clients"]
    /\ cancelled' = [cancelled EXCEPT ![c] = FALSE]
    /\ timer' = [timer EXCEPT ![c] = "unset"]
    /\ statusAtRun' = [statusAtRun EXCEPT ![c] = status[c]]
    /\ errorAtRun' = [errorAtRun EXCEPT ![c] = jobError[c]]
    /\ runErr' = [runErr EXCEPT ![c] = "none"]
    /\ startStatus' = [startStatus EXCEPT ![c] = "none"]
    /\ ackCount' = [ackCount EXCEPT ![c] = 0]
    /\ ackStatus' = [ackStatus EXCEPT ![c] = "none"]
    /\ calls' = [calls EXCEPT ![c] = <<>>]
    /\ removed' = [removed EXCEPT ![c] = {}]
    /\ harvest' = [harvest EXCEPT ![c] = <<>>]
    /\ scheduled' = [scheduled EXCEPT ![c] = 0]
    /\ UNCHANGED <<props0, customOK, kube, status, jobError, outputs, logs,
                   pending, cluster, secrets, times, jobInfos, hook>>

\* run() returns err to Run(), which returns or goes on to wait()
RunReturns(c, err) ==
    /\ runErr' = [runErr EXCEPT ![c] = err]
    /\ pc' = [pc EXCEPT ![c] = AfterRun(err)]

\* run(): the namespace is set, then GetK8sClients
RunClientsNoReturn(c) ==
    /\ pc[c] = "clients"
    /\ props' = [props EXCEPT ![c].Namespace = NamespaceOf(props[c].ClusterID)]
    /\ \/ /\ LogError(c, "get k8s clients error")
          /\ runErr' = [runErr EXCEPT ![c] = "clients"]
          /\ pc' = [pc EXCEPT ![c] = "build"]
          /\ UNCHANGED kube
       \/ /\ kube' = [kube EXCEPT ![c] = props[c].ClusterID]
          /\ pc' = [pc EXCEPT ![c] = "build"]
          /\ UNCHANGED <<jobError, runErr>>
    /\ UNCHANGED <<runs, props0, customOK, status, cancelled, cluster, secrets,
                   statusAtRun, errorAtRun, calls>>
    /\ UNCHANGED removed
    /\ UNCHANGED waitVars

RunClients(c) ==
    /\ pc[c] = "clients"
    /\ props' = [props EXCEPT ![c].Namespace = NamespaceOf(props[c].ClusterID)]
    /\ \/ /\ LogError(c, "get k8s clients error")
          /\ RunReturns(c, "clients")
          /\ UNCHANGED kube
       \/ /\ kube' = [kube EXCEPT ![c] = props[c].ClusterID]
          /\ pc' = [pc EXCEPT ![c] = "build"]
          /\ UNCHANGED <<jobError, runErr>>
    /\ UNCHANGED <<runs, props0, customOK, status, cancelled, cluster, secrets,
                   statusAtRun, errorAtRun, calls>>
    /\ UNCHANGED removed
    /\ UNCHANGED waitVars

\* run(): matched registries, custom labels and annotations, buildPlainJob
RunBuild(c) ==
    /\ pc[c] = "build"
    /\ props' = [props EXCEPT ![c].Registries = GetMatchedRegistries(Image, @)]
    /\ \/ /\ ~customOK[c]                 \* lb.Value.(string) panics
          /\ pc' = [pc EXCEPT ![c] = "panicked"]
          /\ UNCHANGED <<jobError, runErr>>
       \/ /\ customOK[c]
          /\ LogError(c, "create job context error")
          /\ RunReturns(c, "build")
       \/ /\ customOK[c]
          /\ pc' = [pc EXCEPT ![c] = "delete"]
          /\ UNCHANGED <<jobError, runErr>>
    /\ UNCHANGED <<runs, props0, customOK, kube, status, cancelled, cluster,
                   secrets, statusAtRun, errorAtRun, calls>>
    /\ UNCHANGED removed
    /\ UNCHANGED waitVars

\* run(): ensureDeleteJob for the label
RunDeleteSkipped(c) ==
    /\ pc[c] = "delete"
    /\ pc' = [pc EXCEPT ![c] = "secret"]
    /\ UNCHANGED <<runs, props, props0, customOK, kube, status, cancelled,
                   secrets, statusAtRun, errorAtRun, calls, cluster, jobError,
                   runErr>>
    /\ UNCHANGED removed
    /\ UNCHANGED waitVars

RunDelete(c) ==
    /\ pc[c] = "delete"
    /\ calls' = [calls EXCEPT ![c] = Append(@, "delete")]
    /\ \/ /\ LogError(c, "delete job error")
          /\ RunReturns(c, "delete")
          /\ UNCHANGED <<cluster, removed>>
       \/ /\ cluster' = EnsureDeleteJob(cluster, kube[c], props[c].Namespace, JobLabel(c))
          /\ removed' = [removed EXCEPT ![c] =
                {j.owner : j \in Labelled(cluster, kube[c], props[c].Namespace, JobLabel(c))}]
          /\ pc' = [pc EXCEPT ![c] = "secret"]
          /\ UNCHANGED <<jobError, runErr>>
    /\ UNCHANGED <<runs, props, props0, customOK, kube, status, cancelled,
                   secrets, statusAtRun, errorAtRun>>
    /\ UNCHANGED waitVars

\* createOrUpdateRegistrySecrets, were its error logged and run() went on
RunSecretNoReturn(c) ==
    /\ pc[c] = "secret"
    /\ calls' = [calls EXCEPT ![c] = Append(@, "secret")]
    /\ \/ /\ LogError(c, "create secret error")
          /\ pc' = [pc EXCEPT ![c] = "create"]
          /\ UNCHANGED <<secrets, runErr>>
       \/ /\ secrets' = secrets \cup
                RegistrySecrets(kube[c], props[c].Namespace, props[c].Registries)
          /\ pc' = [pc EXCEPT ![c] = "create"]
          /\ UNCHANGED <<jobError, runErr>>
    /\ UNCHANGED <<runs, props, props0, customOK, kube, status, cancelled,
                   cluster, statusAtRun, errorAtRun>>
    /\ UNCHANGED removed
    /\ UNCHANGED waitVars

\* run(): createOrUpdateRegistrySecrets
RunSecret(c) ==
    /\ pc[c] = "secret"
    /\ calls' = [calls EXCEPT ![c] = Append(@, "secret")]
    /\ \/ /\ LogError(c, "create secret error")
          /\ RunReturns(c, "secret")
          /\ UNCHANGED secrets
       \/ /\ secrets' = secrets \cup
                RegistrySecrets(kube[c], props[c].Namespace, props[c].Registries)
          /\ pc' = [pc EXCEPT ![c] = "create"]
          /\ UNCHANGED <<jobError, runErr>>
    /\ UNCHANGED <<runs, props, props0, customOK, kube, status, cancelled,
                   cluster, statusAtRun, errorAtRun>>
    /\ UNCHANGED removed
    /\ UNCHANGED waitVars

\* run(): updater.CreateJob, then run() returns nil
RunCreate(c) ==
    /\ pc[c] = "create"
    /\ calls' = [calls EXCEPT ![c] = Append(@, "create")]
    /\ \/ /\ LogError(c, "create job error")
          /\ RunReturns(c, "create")
          /\ UNCHANGED cluster
       \/ /\ cluster' = cluster \cup {BuiltJob(c)}
          /\ RunReturns(c, "nil")
          /\ UNCHANGED jobError
    /\ UNCHANGED <<runs, props, props0, customOK, kube, status, cancelled,
                   secrets, statusAtRun, errorAtRun>>
    /\ UNCHANGED removed
    /\ UNCHANGED waitVars

\* ------------------------------------------------------------------ wait

\* Variables run() writes and wait(), complete() and the environment leave alone
runVars == <<runs, props, props0, customOK, kube, secrets, statusAtRun,
             errorAtRun, runErr, removed, times, jobInfos, hook>>

\* The Job a controller polls: found by namespace and name
OwnJobs(c) == Labelled(cluster, kube[c], props[c].Namespace, JobLabel(c))

\* waitJobStart(ctx, ..., timeout, ...): the status it can return now.  It
\* returns Running once the Job's pod has left the pending phase, Timeout once
\* the deadline has fired, Cancelled once ctx is done, and polls otherwise.
WaitJobStartResults(c) ==
    {StatusRunning : j \in {k \in OwnJobs(c) : k.phase # "pending"
                                               /\ timer[c] # "fired"
                                               /\ ~cancelled[c]}}
    \cup {StatusTimeout : x \in {1} \cap (IF timer[c] = "fired" THEN {1} ELSE {})}
    \cup {StatusCancelled : x \in {1} \cap (IF cancelled[c] THEN {1} ELSE {})}

\* wait(): the deadline channel handed to waitPlainJobEnd is the one of waitJobStart
EndDeadlineNeverFires(c) == "armed"

EndDeadline(c) == timer[c]

\* waitPlainJobEnd(ctx, ..., timeout, ...): the status it can return now
WaitPlainJobEndResults(c) ==
    {StatusSucceeded : j \in {k \in OwnJobs(c) : k.phase = "succeeded"
                                                 /\ EndDeadline(c) # "fired"
                                                 /\ ~cancelled[c]}}
    \cup {StatusFailed : j \in {k \in OwnJobs(c) : k.phase = "failed"
                                                   /\ EndDeadline(c) # "fired"
                                                   /\ ~cancelled[c]}}
    \cup {StatusTimeout : x \in {1} \cap (IF EndDeadline(c) = "fired" THEN {1} ELSE {})}
    \cup {StatusCancelled : x \in {1} \cap (IF cancelled[c] THEN {1} ELSE {})}

\* wait(): timeout := time.After(Timeout minutes)
WaitBegin(c) ==
    /\ pc[c] = "wait"
    /\ timer' = [timer EXCEPT ![c] = "armed"]
    /\ pc' = [pc EXCEPT ![c] = "wait_start"]
    /\ UNCHANGED <<status, jobError, outputs, logs, cancelled, pending, cluster,
                   startStatus, ackCount, ackStatus, calls, harvest, scheduled>>
    /\ UNCHANGED runVars

\* wait(): only a Running job is acknowledged and waited for to its end
AckOnAnyStatus(st) == TRUE

AckedStatus(st) == st = StatusRunning

\* wait(): c.job.Status, err = waitJobStart(...); ack() on Running, else return.
\* The deadline channel is local to wait() and is gone when wait() returns.
WaitJobStartNoReturn(c) ==
    /\ pc[c] = "wait_start"
    /\ \E st \in WaitJobStartResults(c) :
        /\ status' = [status EXCEPT ![c] = st]
        /\ startStatus' = [startStatus EXCEPT ![c] = st]
        /\ IF AckedStatus(st)
           THEN /\ ackCount' = [ackCount EXCEPT ![c] = @ + 1]
                /\ ackStatus' = [ackStatus EXCEPT ![c] = st]
           ELSE UNCHANGED <<ackCount, ackStatus>>
        /\ pc' = [pc EXCEPT ![c] = "wait_end"]
        /\ UNCHANGED timer
    /\ UNCHANGED <<jobError, outputs, logs, cancelled, pending, cluster,
                   calls, harvest, scheduled>>
    /\ UNCHANGED runVars

\* wait(), were ack() called before the status is assigned
WaitJobStartAckBeforeStatus(c) ==
    /\ pc[c] = "wait_start"
    /\ \E st \in WaitJobStartResults(c) :
        /\ status' = [status EXCEPT ![c] = st]
        /\ startStatus' = [startStatus EXCEPT ![c] = st]
        /\ IF AckedStatus(st)
           THEN /\ ackCount' = [ackCount EXCEPT ![c] = @ + 1]
                /\ ackStatus' = [ackStatus EXCEPT ![c] = status[c]]
                /\ pc' = [pc EXCEPT ![c] = "wait_end"]
                /\ UNCHANGED timer
           ELSE /\ pc' = [pc EXCEPT ![c] = "complete"]
                /\ timer' = [timer EXCEPT ![c] = "unset"]
                /\ UNCHANGED <<ackCount, ackStatus>>
    /\ UNCHANGED <<jobError, outputs, logs, cancelled, pending, cluster,
                   calls, harvest, scheduled>>
    /\ UNCHANGED runVars

WaitJobStart(c) ==
    /\ pc[c] = "wait_start"
    /\ \E st \in WaitJobStartResults(c) :
        /\ status' = [status EXCEPT ![c] = st]
        /\ startStatus' = [startStatus EXCEPT ![c] = st]
        /\ IF AckedStatus(st)
           THEN /\ ackCount' = [ackCount EXCEPT ![c] = @ + 1]
                /\ ackStatus' = [ackStatus EXCEPT ![c] = st]
                /\ pc' = [pc EXCEPT ![c] = "wait_end"]
                /\ UNCHANGED timer
           ELSE /\ pc' = [pc EXCEPT ![c] = "complete"]
                /\ timer' = [timer EXCEPT ![c] = "unset"]
                /\ UNCHANGED <<ackCount, ackStatus>>
    /\ UNCHANGED <<jobError, outputs, logs, cancelled, pending, cluster,
                   calls, harvest, scheduled>>
    /\ UNCHANGED runVars

\* wait(): c.job.Status = waitPlainJobEnd(...)
WaitJobEndStatusKept(c) ==
    /\ pc[c] = "wait_end"
    /\ \E st \in WaitPlainJobEndResults(c) :
        /\ pc' = [pc EXCEPT ![c] = "complete"]
        /\ timer' = [timer EXCEPT ![c] = "unset"]
    /\ UNCHANGED <<status, jobError, outputs, logs, cancelled, pending, cluster,
                   startStatus, ackCount, ackStatus, calls, harvest, scheduled>>
    /\ UNCHANGED runVars

WaitJobEnd(c) ==
    /\ pc[c] = "wait_end"
    /\ \E st \in WaitPlainJobEndResults(c) :
        /\ status' = [status EXCEPT ![c] = st]
        /\ pc' = [pc EXCEPT ![c] = "complete"]
        /\ timer' = [timer EXCEPT ![c] = "unset"]
    /\ UNCHANGED <<jobError, outputs, logs, cancelled, pending, cluster,
                   startStatus, ackCount, ackStatus, calls, harvest, scheduled>>
    /\ UNCHANGED runVars

\* -------------------------------------------------------------- complete

\* getJobOutputFromTerminalMsg: what it can do now, as <<failed, outputs read>>.
\* It reads the outputs a terminated pod left in its termination message; the
\* cluster call, or the decoding of the message, may fail.
JobOutputResults(c) ==
    {<<TRUE, {}>>,
     <<FALSE, {o \in {"out"} : \E j \in OwnJobs(c) : j.msg = "valid"}>>}

\* complete(): the deferred func spawns the cleanup goroutine when complete returns
DeferredCleanup(c) ==
    /\ scheduled' = [scheduled EXCEPT ![c] = @ + 1]
    /\ pending' = [pending EXCEPT ![c] = @ + 1]

\* getJobOutputFromTerminalMsg, were its failure to fail the job
CompleteOutputsFailsJob(c) ==
    /\ pc[c] = "complete"
    /\ calls' = [calls EXCEPT ![c] = Append(@, "extract")]
    /\ \E r \in JobOutputResults(c) :
        /\ outputs' = [outputs EXCEPT ![c] = @ \cup r[2]]
        /\ harvest' = [harvest EXCEPT ![c] = Append(@, IF r[1] THEN "fail" ELSE "ok")]
        /\ IF r[1]
           THEN /\ jobError' = [jobError EXCEPT ![c] = ErrOutputs]
                /\ status' = [status EXCEPT ![c] = StatusFailed]
           ELSE UNCHANGED <<jobError, status>>
    /\ pc' = [pc EXCEPT ![c] = "savelog"]
    /\ UNCHANGED <<logs, timer, cancelled, pending, cluster, startStatus,
                   ackCount, ackStatus, scheduled>>
    /\ UNCHANGED runVars

\* getJobOutputFromTerminalMsg, were complete() to return on its failure
CompleteOutputsReturnsOnError(c) ==
    /\ pc[c] = "complete"
    /\ calls' = [calls EXCEPT ![c] = Append(@, "extract")]
    /\ \E r \in JobOutputResults(c) :
        /\ outputs' = [outputs EXCEPT ![c] = @ \cup r[2]]
        /\ harvest' = [harvest EXCEPT ![c] = Append(@, IF r[1] THEN "fail" ELSE "ok")]
        /\ IF r[1]
           THEN /\ jobError' = [jobError EXCEPT ![c] = ErrOutputs]
                /\ pc' = [pc EXCEPT ![c] = "returned"]
                /\ cancelled' = [cancelled EXCEPT ![c] = FALSE]
                /\ DeferredCleanup(c)
           ELSE /\ pc' = [pc EXCEPT ![c] = "savelog"]
                /\ UNCHANGED <<jobError, cancelled, pending, scheduled>>
    /\ UNCHANGED <<status, logs, timer, cluster, startStatus, ackCount, ackStatus>>
    /\ UNCHANGED runVars

\* complete(): getJobOutputFromTerminalMsg; a failure is recorded and not fatal
CompleteOutputs(c) ==
    /\ pc[c] = "complete"
    /\ calls' = [calls EXCEPT ![c] = Append(@, "extract")]
    /\ \E r \in JobOutputResults(c) :
        /\ outputs' = [outputs EXCEPT ![c] = @ \cup r[2]]
        /\ harvest' = [harvest EXCEPT ![c] = Append(@, IF r[1] THEN "fail" ELSE "ok")]
        /\ IF r[1]
           THEN jobError' = [jobError EXCEPT ![c] = ErrOutputs]
           ELSE UNCHANGED jobError
    /\ pc' = [pc EXCEPT ![c] = "savelog"]
    /\ UNCHANGED <<status, logs, timer, cancelled, pending, cluster, startStatus,
                   ackCount, ackStatus, scheduled>>
    /\ UNCHANGED runVars

\* complete(): saveContainerLog; its error is kept only if none is recorded.
\* Run() returns with complete(), and the context of the Run ends with it.
CompleteLogOverwritesError(c) ==
    /\ pc[c] = "savelog"
    /\ calls' = [calls EXCEPT ![c] = Append(@, "savelog")]
    /\ \/ /\ jobError' = [jobError EXCEPT ![c] = ErrLog]
          /\ harvest' = [harvest EXCEPT ![c] = Append(@, "fail")]
          /\ UNCHANGED logs
       \/ /\ logs' = logs \cup {<<c, runs[c]>>}
          /\ harvest' = [harvest EXCEPT ![c] = Append(@, "ok")]
          /\ UNCHANGED jobError
    /\ DeferredCleanup(c)
    /\ pc' = [pc EXCEPT ![c] = "returned"]
    /\ cancelled' = [cancelled EXCEPT ![c] = FALSE]
    /\ UNCHANGED <<status, outputs, timer, cluster, startStatus,
                   ackCount, ackStatus>>
    /\ UNCHANGED runVars

CompleteLogCleanupNotDeferred(c) ==
    /\ pc[c] = "savelog"
    /\ calls' = [calls EXCEPT ![c] = Append(@, "savelog")]
    /\ \/ /\ jobError' = [jobError EXCEPT ![c] =
                             IF @ = "" THEN ErrLog ELSE @]
          /\ harvest' = [harvest EXCEPT ![c] = Append(@, "fail")]
          /\ UNCHANGED <<logs, scheduled, pending>>
       \/ /\ logs' = logs \cup {<<c, runs[c]>>}
          /\ harvest' = [harvest EXCEPT ![c] = Append(@, "ok")]
          /\ DeferredCleanup(c)
          /\ UNCHANGED jobError
    /\ pc' = [pc EXCEPT ![c] = "returned"]
    /\ cancelled' = [cancelled EXCEPT ![c] = FALSE]
    /\ UNCHANGED <<status, outputs, timer, cluster, startStatus,
                   ackCount, ackStatus>>
    /\ UNCHANGED runVars

\* saveContainerLog, were complete() to delete the Job before it returns
CompleteLogAwaitsCleanup(c) ==
    /\ pc[c] = "savelog"
    /\ calls' = [calls EXCEPT ![c] = Append(@, "savelog")]
    /\ \/ /\ jobError' = [jobError EXCEPT ![c] =
                             IF @ = "" THEN ErrLog ELSE @]
          /\ harvest' = [harvest EXCEPT ![c] = Append(@, "fail")]
          /\ UNCHANGED logs
       \/ /\ logs' = logs \cup {<<c, runs[c]>>}
          /\ harvest' = [harvest EXCEPT ![c] = Append(@, "ok")]
          /\ UNCHANGED jobError
    /\ scheduled' = [scheduled EXCEPT ![c] = @ + 1]
    /\ cluster' = EnsureDeleteJob(cluster, kube[c], props[c].Namespace, JobLabel(c))
    /\ pc' = [pc EXCEPT ![c] = "returned"]
    /\ cancelled' = [cancelled EXCEPT ![c] = FALSE]
    /\ UNCHANGED <<status, outputs, timer, pending, startStatus,
                   ackCount, ackStatus>>
    /\ UNCHANGED runVars

CompleteLog(c) ==
    /\ pc[c] = "savelog"
    /\ calls' = [calls EXCEPT ![c] = Append(@, "savelog")]
    /\ \/ /\ jobError' = [jobError EXCEPT ![c] =
                             IF @ = "" THEN ErrLog ELSE @]
          /\ harvest' = [harvest EXCEPT ![c] = Append(@, "fail")]
          /\ UNCHANGED logs
       \/ /\ logs' = logs \cup {<<c, runs[c]>>}
          /\ harvest' = [harvest EXCEPT ![c] = Append(@, "ok")]
          /\ UNCHANGED jobError
    /\ DeferredCleanup(c)
    /\ pc' = [pc EXCEPT ![c] = "returned"]
    /\ cancelled' = [cancelled EXCEPT ![c] = FALSE]
    /\ UNCHANGED <<status, outputs, timer, cluster, startStatus,
                   ackCount, ackStatus>>
    /\ UNCHANGED runVars

\* The cleanup, were it to delete only the Job of the Run that scheduled it
CleanupSparesLaterRun(c) ==
    /\ pending[c] > 0
    /\ pending' = [pending EXCEPT ![c] = @ - 1]
    /\ \/ cluster' = cluster \
             {j \in Labelled(cluster, kube[c], props[c].Namespace, JobLabel(c)) :
                 pc[c] \in {"idle", "returned", "panicked"}
                    \/ j.owner # <<c, runs[c]>>}
       \/ UNCHANGED cluster
    /\ UNCHANGED <<pc, status, jobError, outputs, logs, timer, cancelled,
                   startStatus, ackCount, ackStatus, calls, harvest, scheduled>>
    /\ UNCHANGED runVars

\* The detached goroutine: ensureDeleteJob, an error is only logged
Cleanup(c) ==
    /\ pending[c] > 0
    /\ pending' = [pending EXCEPT ![c] = @ - 1]
    /\ \/ cluster' = EnsureDeleteJob(cluster, kube[c], props[c].Namespace, JobLabel(c))
       \/ UNCHANGED cluster
    /\ UNCHANGED <<pc, status, jobError, outputs, logs, timer, cancelled,
                   startStatus, ackCount, ackStatus, calls, harvest, scheduled>>
    /\ UNCHANGED runVars

\* ------------------------------------------------------------ environment

InRun(c) == pc[c] \notin {"idle", "returned", "panicked"}

envUnchanged == <<pc, status, jobError, outputs, logs, pending, startStatus,
                  ackCount, ackStatus, calls, harvest, scheduled>>

\* The deadline of wait() elapses
DeadlineFires(c) ==
    /\ timer[c] = "armed"
    /\ InRun(c)
    /\ timer' = [timer EXCEPT ![c] = "fired"]
    /\ UNCHANGED <<cancelled, cluster>>
    /\ UNCHANGED envUnchanged
    /\ UNCHANGED runVars

\* The caller cancels the context of the Run in progress.  Only the wait
\* helpers read ctx, so a cancellation before wait() is taken at its start.
Cancel(c) ==
    /\ pc[c] \in {"wait", "wait_start", "wait_end"}
    /\ ~cancelled[c]
    /\ cancelled' = [cancelled EXCEPT ![c] = TRUE]
    /\ UNCHANGED <<timer, cluster>>
    /\ UNCHANGED envUnchanged
    /\ UNCHANGED runVars

\* The pod of a live Job starts, then ends with or without a termination message
PodProgress ==
    /\ \E j \in cluster :
        \/ /\ j.phase = "pending"
           /\ cluster' = (cluster \ {j}) \cup {[j EXCEPT !.phase = "running"]}
        \/ /\ j.phase = "running"
           /\ \E m \in {"none", "valid"} :
                cluster' = (cluster \ {j}) \cup
                           {[j EXCEPT !.phase = "succeeded", !.msg = m]}
        \/ /\ j.phase = "running"
           /\ cluster' = (cluster \ {j}) \cup {[j EXCEPT !.phase = "failed"]}
    /\ UNCHANGED <<timer, cancelled>>
    /\ UNCHANGED envUnchanged
    /\ UNCHANGED runVars

\* ------------------------------------------------------------------ Next

\* One step of the goroutine that called Run
RunStep(c) ==
    \/ RunClients(c)
    \/ RunBuild(c)
    \/ RunDelete(c)
    \/ RunSecret(c)
    \/ RunCreate(c)
    \/ WaitBegin(c)
    \/ WaitJobStart(c)
    \/ WaitJobEnd(c)
    \/ CompleteOutputs(c)
    \/ CompleteLog(c)

Next ==
    \/ \E c \in Driven : RunPrepare(c)
    \/ \E c \in Driven : RunStep(c)
    \/ \E c \in Driven : Cleanup(c)
    \/ \E c \in Driven : DeadlineFires(c)
    \/ \E c \in Driven : Cancel(c)
    \/ PodProgress

Spec == Init /\ [][Next]_vars

\* prepare() alone, over every combination of its inputs: Run is entered, and
\* entered again after a Run that failed to resolve its cluster client
InitPrepare ==
    /\ InitWith(AllProps)
    /\ times = [c \in Ctls |-> NoTimes]

NextPrepare ==
    \/ \E c \in Driven : RunPrepare(c)
    \/ \E c \in Driven : RunClients(c)

PrepareSpec == InitPrepare /\ [][NextPrepare]_vars

\* ---------------------------------------------------------------- SaveInfo

\* The record, were a harvesting error reported as a failed job
JobInfoOfErrorAsFailed(c) ==
    [Type      |-> JobType,
     Task      |-> c,
     StartTime |-> times[c].StartTime,
     EndTime   |-> times[c].EndTime,
     Duration  |-> times[c].EndTime - times[c].StartTime,
     Status    |-> IF jobError[c] # "" THEN StatusFailed ELSE status[c]]

\* The record SaveInfo hands to Create
JobInfoOf(c) ==
    [Type      |-> JobType,
     Task      |-> c,
     StartTime |-> times[c].StartTime,
     EndTime   |-> times[c].EndTime,
     Duration  |-> times[c].EndTime - times[c].StartTime,
     Status    |-> status[c]]

\* SaveInfo, were the task's record replaced instead of created
SaveInfoReplacesRecord(c) ==
    /\ ~InRun(c)
    /\ pc[c] # "panicked"
    /\ Len(jobInfos) < MaxInfos
    /\ \/ jobInfos' = <<JobInfoOf(c)>>
       \/ UNCHANGED jobInfos
    /\ UNCHANGED <<pc, status, jobError, cancelled, cluster, calls, times, hook>>
    /\ UNCHANGED <<outputs, logs, timer, pending, startStatus, ackCount,
                   ackStatus, harvest, scheduled>>
    /\ UNCHANGED <<runs, props, props0, customOK, kube, secrets, statusAtRun,
                   errorAtRun, runErr, removed>>

\* SaveInfo: one Create of the record; Create stores it or returns an error.
\* The caller calls it between Runs, never from inside one.
SaveInfo(c) ==
    /\ ~InRun(c)
    /\ pc[c] # "panicked"
    /\ Len(jobInfos) < MaxInfos
    /\ \/ jobInfos' = Append(jobInfos, JobInfoOf(c))
       \/ UNCHANGED jobInfos
    /\ UNCHANGED <<pc, status, jobError, cancelled, cluster, calls, times, hook>>
    /\ UNCHANGED <<outputs, logs, timer, pending, startStatus, ackCount,
                   ackStatus, harvest, scheduled>>
    /\ UNCHANGED <<runs, props, props0, customOK, kube, secrets, statusAtRun,
                   errorAtRun, runErr, removed>>

\* One Run of a controller whose caller saves the job's record, before the
\* Run or after it, over the start and end times the job task can carry
InfoInit ==
    /\ InitWith({p \in InitProps : p.ClusterID = ""})
    /\ cluster = {}
    /\ \E t \in TimeInputs :
          times = [c \in Ctls |-> IF c \in Driven THEN t ELSE NoTimes]

NextInfo ==
    \/ \E c \in Driven : pc[c] = "idle" /\ RunPrepare(c)
    \/ \E c \in Driven : RunStep(c)
    \/ \E c \in Driven : Cleanup(c)
    \/ \E c \in Driven : DeadlineFires(c)
    \/ \E c \in Driven : Cancel(c)
    \/ PodProgress
    \/ \E c \in Driven : SaveInfo(c)

InfoSpec == InfoInit /\ [][NextInfo]_vars

\* ----------------------------------------------------------- GetHookSecret

\* Everything but the hook secret and its callers
ctlVars == <<pc, runs, props, props0, customOK, kube, status, jobError, outputs,
             logs, timer, cancelled, pending, cluster, secrets, statusAtRun,
             errorAtRun, runErr, startStatus, ackCount, ackStatus, calls,
             removed, harvest, scheduled, times, jobInfos>>

HookAt(g, where) == hook.pc[g] = where

HookGoto(h, g, where) == [h EXCEPT !.pc[g] = where]

\* A goroutine calls GetHookSecret and enters once.Do
HookCall(g) ==
    /\ HookAt(g, "idle")
    /\ hook.calls[g] < MaxHookCalls
    /\ hook' = HookGoto([hook EXCEPT !.calls[g] = @ + 1], g, "do")
    /\ UNCHANGED ctlVars

\* once.Do: the load of done; a done once returns at once
OnceDo(g) ==
    /\ HookAt(g, "do")
    /\ hook' = HookGoto(hook, g, IF hook.done THEN "return" ELSE "lock")
    /\ UNCHANGED ctlVars

\* once.Do, were the once's mutex not taken
OnceLockNotExclusive(g) ==
    /\ HookAt(g, "lock")
    /\ hook' = IF hook.done
               THEN HookGoto(hook, g, "return")
               ELSE HookGoto([hook EXCEPT !.m = g], g, "init")
    /\ UNCHANGED ctlVars

\* once.Do: the once's mutex is taken and done is read again under it
OnceLock(g) ==
    /\ HookAt(g, "lock")
    /\ hook.m = "free"
    /\ hook' = IF hook.done
               THEN HookGoto(hook, g, "return")
               ELSE HookGoto([hook EXCEPT !.m = g], g, "init")
    /\ UNCHANGED ctlVars

\* The func handed to once.Do: crypto.AesEncrypt, and the panic on its error.
\* The panic leaves once.Do through its deferred calls: done is set, the
\* mutex released, and the calling goroutine does not return.
HookEncrypt(g) ==
    /\ HookAt(g, "init")
    /\ \E r \in AesResults :
          hook' = IF r = "error"
                  THEN HookGoto([hook EXCEPT !.encrypts = @ + 1, !.done = TRUE,
                                             !.m = "free"], g, "panicked")
                  ELSE HookGoto([hook EXCEPT !.encrypts = @ + 1, !.token[g] = r],
                                g, "store")
    /\ UNCHANGED ctlVars

\* The func handed to once.Do: secret = token, and once.Do returns
HookStore(g) ==
    /\ HookAt(g, "store")
    /\ hook' = HookGoto([hook EXCEPT !.secret = hook.token[g], !.done = TRUE,
                                     !.m = "free"], g, "return")
    /\ UNCHANGED ctlVars

\* return secret
HookReturn(g) ==
    /\ HookAt(g, "return")
    /\ hook' = HookGoto([hook EXCEPT !.rets = @ \cup {hook.secret}], g, "idle")
    /\ UNCHANGED ctlVars

HookStep(g) ==
    \/ HookCall(g)
    \/ OnceDo(g)
    \/ OnceLock(g)
    \/ HookEncrypt(g)
    \/ HookStore(g)
    \/ HookReturn(g)

NextHook == \E g \in HookCallers : HookStep(g)

\* GetHookSecret called by concurrent goroutines, no controller running
HookSpec == Init /\ [][NextHook]_vars

\* ------------------------------------------------------------ concurrency

\* Two controllers of different job names, each run once by its own caller,
\* on one cluster and namespace that hold the Jobs of earlier tasks
ConcInit ==
    /\ InitWith({p \in InitProps : p.ClusterID = ""})
    /\ cluster = PreJobs(LocalClusterID)
    /\ times = [c \in Ctls |-> NoTimes]

NextConc ==
    \/ \E c \in Ctls : pc[c] = "idle" /\ RunPrepare(c)
    \/ \E c \in Ctls : RunStep(c)
    \/ \E c \in Ctls : Cleanup(c)
    \/ \E c \in Ctls : DeadlineFires(c)
    \/ \E c \in Ctls : Cancel(c)
    \/ PodProgress

ConcSpec == ConcInit /\ [][NextConc]_vars

\* The scheduler runs every goroutine that can step, and time passes.  The
\* behaviours start from the unset spec and a cluster that holds earlier Jobs.
FairInit ==
    /\ InitWith({p \in InitProps : p.ClusterID = ""})
    /\ cluster = PreJobs(LocalClusterID)
    /\ times = [c \in Ctls |-> NoTimes]

FairSpec ==
    /\ FairInit
    /\ [][Next]_vars
    /\ \A c \in Driven : WF_vars(RunStep(c))
    /\ \A c \in Driven : WF_vars(Cleanup(c))
    /\ \A c \in Driven : WF_vars(DeadlineFires(c))

\* ----------------------------------------------------------------- claims

Called(c, what) == \E i \in 1..Len(calls[c]) : calls[c][i] = what

RunFailed(c) == runErr[c] \notin {"none", "nil"}

\* C1: in a Run whose run() returned an error, wait() and complete() are not
\* executed: no deadline is armed, waitJobStart is not called, ack is not
\* invoked, no output extraction or log save is attempted and no cleanup
\* deletion is scheduled; Run has returned.
C1_FailedRunSkipsWaitAndComplete ==
    \A c \in Driven :
        RunFailed(c) =>
            /\ pc[c] = "returned"
            /\ timer[c] = "unset"
            /\ startStatus[c] = "none"
            /\ ackCount[c] = 0
            /\ ~Called(c, "extract")
            /\ ~Called(c, "savelog")
            /\ scheduled[c] = 0

\* A second Run fails at job creation while the cleanup of the first is pending
C1_Witness ==
    \E c \in Driven :
        /\ runErr[c] = "create"
        /\ pc[c] = "returned"
        /\ runs[c] = 2
        /\ pending[c] > 0

NotStarted(c) == startStatus[c] \notin {"none", StatusRunning}

\* C2 as stated: when waitJobStart returns a status other than Running, ack is
\* never invoked and complete() is not reached (no output extraction, no log
\* save, no cleanup deletion scheduled).
C2_Original ==
    \A c \in Driven :
        NotStarted(c) =>
            /\ ackCount[c] = 0
            /\ ~Called(c, "extract")
            /\ ~Called(c, "savelog")
            /\ scheduled[c] = 0

\* C2 amended: when waitJobStart returns a status other than Running, ack is
\* never invoked and waitPlainJobEnd is not entered, so job.Status stays the
\* status waitJobStart returned; wait() returns and Run goes on to complete():
\* by the time Run returns, output extraction and log save were attempted and
\* one cleanup deletion was scheduled.
C2_NotStartedSkipsAckNotComplete ==
    \A c \in Driven :
        NotStarted(c) =>
            /\ ackCount[c] = 0
            /\ pc[c] \in {"complete", "savelog", "returned"}
            /\ status[c] = startStatus[c]
            /\ pc[c] = "returned" =>
                    /\ Called(c, "extract")
                    /\ Called(c, "savelog")
                    /\ scheduled[c] = 1

\* The job never started before the deadline and Run has returned
C2_Witness ==
    \E c \in Driven :
        /\ startStatus[c] = StatusTimeout
        /\ pc[c] = "returned"
        /\ status[c] = StatusTimeout

\* C3: in a single Run the ack callback is invoked at most once, and only when
\* waitJobStart returned Running, with job.Status Running at the call; on every
\* other path it is not invoked.
C3_AckAtMostOnceOnlyOnRunning ==
    \A c \in Driven :
        /\ ackCount[c] <= 1
        /\ ackCount[c] = 1 =>
                startStatus[c] = StatusRunning /\ ackStatus[c] = StatusRunning
        /\ startStatus[c] # StatusRunning => ackCount[c] = 0 /\ ackStatus[c] = "none"

\* A Run that acknowledged once has returned, on its second call
C3_Witness ==
    \E c \in Driven :
        /\ ackCount[c] = 1
        /\ pc[c] = "returned"
        /\ runs[c] = 2

\* Jobs that share cluster, namespace and label are one Job
AtMostOnePerLabel ==
    \A j1, j2 \in cluster :
        (j1.cl = j2.cl /\ j1.ns = j2.ns /\ j1.label = j2.label) => j1 = j2

\* C4: at most one live Job exists per JobLabel at any time; in every run()
\* ensureDeleteJob for the label comes before CreateJob, and the step in which
\* CreateJob succeeds leaves exactly one live Job with the label, the one just
\* submitted, also when the cluster held a Job with that label before.
C4_OneLiveJobPerLabel ==
    /\ []AtMostOnePerLabel
    /\ [](\A c \in Driven : Called(c, "create") => calls[c][1] = "delete")
    /\ [][\A c \in Driven :
            (pc[c] = "create" /\ runErr'[c] = "nil") =>
                /\ BuiltJob(c) \in cluster'
                /\ Cardinality(Labelled(cluster', kube[c], props[c].Namespace,
                                        JobLabel(c))) = 1]_vars

\* run() found a Job of an earlier task under its label, removed it, and its
\* own Job is now the only one with the label
C4_Witness ==
    \E c \in Driven :
        /\ pc[c] = "wait"
        /\ removed[c] = {<<"pre", 0>>}
        /\ OwnJobs(c) = {BuiltJob(c)}

\* C5: when GetK8sClients fails, run() returns the error, job.Status is the
\* one it was when Run was entered, and no delete, secret or create call was
\* issued against the cluster.
C5_ClientFailureLeavesStatus ==
    \A c \in Driven :
        runErr[c] = "clients" =>
            /\ pc[c] = "returned"
            /\ status[c] = statusAtRun[c]
            /\ status[c] # StatusRunning
            /\ runs[c] = 1 => kube[c] = "nil"
            /\ calls[c] = <<>>
            /\ removed[c] = {}

\* The first Run of a pending job fails to resolve its cluster client
C5_Witness ==
    \E c \in Driven :
        /\ runErr[c] = "clients"
        /\ runs[c] = 1
        /\ status[c] = StatusPending
        /\ jobError[c] # ""

Harvesting(c) == pc[c] \in {"complete", "savelog"}

\* C8: a Run whose run() succeeded and that saw Running returns with job.Status
\* among Succeeded, Failed, Timeout, Cancelled; the status only moves to Running
\* when waitJobStart returns and to a terminal status when a wait helper
\* returns, never back to Pending, and complete() leaves a terminal status as
\* it is.
C8_StatusReachesTerminal ==
    /\ [](\A c \in Driven :
            (pc[c] = "returned" /\ runErr[c] = "nil" /\ startStatus[c] = StatusRunning)
                => status[c] \in TerminalStatuses)
    /\ [][\A c \in Driven :
            /\ status'[c] # status[c] =>
                \/ pc[c] = "wait_start" /\ status'[c] \in TerminalStatuses \cup {StatusRunning}
                \/ pc[c] = "wait_end" /\ status[c] = StatusRunning
                                      /\ status'[c] \in TerminalStatuses
            /\ (Harvesting(c) /\ status[c] \in TerminalStatuses) =>
                    status'[c] = status[c]]_vars

\* A started job succeeded and Run returned
C8_Witness ==
    \E c \in Driven :
        /\ pc[c] = "returned"
        /\ startStatus[c] = StatusRunning
        /\ status[c] = StatusSucceeded

\* C9: when saveContainerLog fails, job.Error becomes the log-save error only
\* if job.Error was empty, and keeps the error already recorded otherwise; the
\* outputs already in the workflow context stay, and complete() returns.  So
\* after a completion whose extraction failed, job.Error is the extraction
\* error whatever the log save did.
C9_FirstCompletionErrorKept ==
    /\ [][\A c \in Driven :
            (pc[c] = "savelog" /\ harvest'[c] = Append(harvest[c], "fail")) =>
                /\ jobError[c] = "" => jobError'[c] = ErrLog
                /\ jobError[c] # "" => jobError'[c] = jobError[c]
                /\ outputs'[c] = outputs[c]
                /\ pc'[c] = "returned"]_vars
    /\ [](\A c \in Driven :
            (pc[c] = "returned" /\ Len(harvest[c]) = 2 /\ harvest[c][1] = "fail")
                => jobError[c] = ErrOutputs)
    /\ [](\A c \in Driven :
            (pc[c] = "returned" /\ harvest[c] = <<"ok", "fail">>)
                => jobError[c] = (IF errorAtRun[c] = "" THEN ErrLog ELSE errorAtRun[c]))

\* Extraction failed, then the log save failed: the extraction error is kept
C9_Witness ==
    \E c \in Driven :
        /\ pc[c] = "returned"
        /\ harvest[c] = <<"fail", "fail">>
        /\ jobError[c] = ErrOutputs

\* C6: prepare() sets Timeout to 600 when it is <= 0, ResourceRequest to
\* MinRequest when it is empty and ClusterID to the local cluster ID when it is
\* empty, and leaves values already set as they are; prepare() applied to a
\* prepared spec changes nothing, so a second Run sees the spec of the first.
C6_PrepareDefaultsIdempotent ==
    \A c \in Driven :
        runs[c] >= 1 =>
            /\ props[c].Timeout =
                 (IF props0[c].Timeout <= 0 THEN 600 ELSE props0[c].Timeout)
            /\ props[c].ResourceRequest =
                 (IF props0[c].ResourceRequest = "" THEN MinRequest
                  ELSE props0[c].ResourceRequest)
            /\ props[c].ClusterID =
                 (IF props0[c].ClusterID = "" THEN LocalClusterID
                  ELSE props0[c].ClusterID)
            /\ props[c].Registries = props0[c].Registries
            /\ Prepare(props[c]) = props[c]

\* The spec {Timeout: 0, ClusterID: ""} with no resource tier, prepared twice
C6_Witness ==
    \E c \in Driven :
        /\ runs[c] = 2
        /\ props0[c].Timeout = 0
        /\ props0[c].ClusterID = ""
        /\ props0[c].ResourceRequest = ""
        /\ props[c].Timeout = 600
        /\ props[c].ClusterID = LocalClusterID
        /\ props[c].ResourceRequest = MinRequest

\* C7: every Run ends: the deadline is armed once, when wait() is entered, and
\* is the same one in the wait for the start and the wait for the end; once it
\* has fired the wait helper in progress returns Timeout or Cancelled, so a pod
\* that never starts or never finishes does not block Run.
C7_RunTerminates ==
    /\ \A c \in Driven : [](InRun(c) => <>(~InRun(c)))
    /\ [][\A c \in Driven :
            /\ (timer'[c] = "armed" /\ timer[c] # "armed") =>
                    (pc[c] = "wait" /\ pc'[c] = "wait_start")
            /\ (pc[c] = "wait_start" /\ pc'[c] = "wait_end") => timer'[c] = timer[c]
            /\ (timer[c] = "fired" /\ pc'[c] # pc[c]) =>
                    (pc'[c] = "complete"
                     /\ status'[c] \in {StatusTimeout, StatusCancelled})]_vars

\* The pod started and never finished: the deadline ended the wait for the end
C7_Witness ==
    \E c \in Driven :
        /\ pc[c] = "returned"
        /\ startStatus[c] = StatusRunning
        /\ status[c] = StatusTimeout
        /\ \E j \in OwnJobs(c) : j.phase = "running"

\* C10: complete() schedules one detached deletion of the Job each time it
\* runs, whatever the extraction and the log save did, and nothing else
\* schedules one; the deletion is attempted in the end, and its outcome changes
\* neither job.Status nor job.Error nor where Run stands.
C10_CleanupScheduledOnce ==
    /\ [][\A c \in Driven :
            IF pc[c] = "savelog" /\ pc'[c] = "returned"
            THEN /\ scheduled'[c] = scheduled[c] + 1
                 /\ pending'[c] = pending[c] + 1
            ELSE /\ pending'[c] <= pending[c]
                 /\ \/ scheduled'[c] = scheduled[c]
                    \/ ~InRun(c) /\ InRun(c)' /\ scheduled'[c] = 0]_vars
    /\ [](\A c \in Driven :
            (pc[c] = "returned" /\ Called(c, "extract")) =>
                (Len(harvest[c]) = 2 /\ scheduled[c] = 1))
    /\ [][\A c \in Driven :
            pending'[c] < pending[c] =>
                /\ pending'[c] = pending[c] - 1
                /\ status'[c] = status[c]
                /\ jobError'[c] = jobError[c]
                /\ pc'[c] = pc[c]]_vars
    /\ \A c \in Driven : [](pending[c] > 0 => <>(pending[c] = 0))

\* The log save failed, complete() returned early, and the cleanup it had
\* scheduled has run and removed the Job
C10_Witness ==
    \E c \in Driven :
        /\ pc[c] = "returned"
        /\ Len(harvest[c]) = 2
        /\ harvest[c][2] = "fail"
        /\ scheduled[c] = 1
        /\ pending[c] = 0
        /\ OwnJobs(c) = {}

\* The record a SaveInfo step has just created
Created == jobInfos'[Len(jobInfos')]

\* C11: the JobInfo record SaveInfo creates carries the job's status at the
\* time of the call and Duration = EndTime - StartTime of the job, whether or
\* not job.Error was set by a harvesting failure in complete().
C11_RecordCarriesStatusAndDuration ==
    [][\A c \in Driven :
          jobInfos' # jobInfos =>
              /\ Created.Status = status[c]
              /\ Created.StartTime = times[c].StartTime
              /\ Created.EndTime = times[c].EndTime
              /\ Created.Duration = times[c].EndTime - times[c].StartTime]_vars

\* A record of a succeeded job whose output extraction failed
C11_Witness ==
    \E c \in Driven, i \in 1..Len(jobInfos) :
        /\ jobError[c] = ErrOutputs
        /\ jobInfos[i].Status = StatusSucceeded
        /\ jobInfos[i].Duration = jobInfos[i].EndTime - jobInfos[i].StartTime
        /\ jobInfos[i].Duration > 0

\* C12 as stated: over any sequence of Run and SaveInfo calls, one job task
\* has at most one JobInfo record and the record's status is terminal.
C12_Original ==
    /\ Len(jobInfos) <= 1
    /\ \A i \in 1..Len(jobInfos) : jobInfos[i].Status \in TerminalStatuses

\* C12: every SaveInfo call creates at most one new JobInfo record and leaves
\* the records created earlier as they are; the controller limits neither
\* when nor how often it is called, and the record it creates is terminal
\* when the call follows the return of a Run whose run() succeeded.
C12_RecordsAppendOnly ==
    [][\A c \in Driven :
          jobInfos' # jobInfos =>
              /\ Len(jobInfos') = Len(jobInfos) + 1
              /\ SubSeq(jobInfos', 1, Len(jobInfos)) = jobInfos
              /\ ~InRun(c)
              /\ (pc[c] = "returned" /\ runErr[c] = "nil") =>
                     Created.Status \in TerminalStatuses]_vars

\* Two records of one task, the first saved before the job had run
C12_Witness ==
    /\ Len(jobInfos) = 2
    /\ jobInfos[1].Status = StatusPending
    /\ jobInfos[2].Status \in TerminalStatuses
    /\ jobInfos[1].Task = jobInfos[2].Task

\* C13: complete() never changes job.Status: while output extraction and
\* log saving run, and after Run has returned, the status is the one wait()
\* wrote, also when a harvesting step failed and set job.Error.
C13_CompleteKeepsStatus ==
    [][\A c \in Driven :
          (Harvesting(c) \/ (pc[c] = "returned" /\ pc'[c] = "returned")) =>
              status'[c] = status[c]]_vars

\* A Run has returned Succeeded although both harvesting steps failed
C13_Witness ==
    \E c \in Driven :
        /\ pc[c] = "returned"
        /\ harvest[c] = <<"fail", "fail">>
        /\ jobError[c] = ErrOutputs
        /\ status[c] = StatusSucceeded

\* The cluster calls of run(), in the order made
RunCalls(c) == SelectSeq(calls[c], LAMBDA w : w \in {"delete", "secret", "create"})

\* C14: in run() the cluster steps are made in the order delete-by-label,
\* registry secrets, job creation, each at most once per Run; after a failed
\* delete or a failed secret provisioning CreateJob is not called, and a Run
\* whose run() returned an error has submitted no Job.
C14_ClusterStepsOrdered ==
    \A c \in Driven :
        /\ RunCalls(c) \in {<<>>, <<"delete">>, <<"delete", "secret">>,
                            <<"delete", "secret", "create">>}
        /\ runErr[c] = "delete" => RunCalls(c) = <<"delete">>
        /\ runErr[c] = "secret" => RunCalls(c) = <<"delete", "secret">>
        /\ (jobError[c] \in {"delete job error", "create secret error"}
              /\ errorAtRun[c] # jobError[c]) => ~Called(c, "create")
        /\ RunFailed(c) => \A j \in cluster : j.owner # <<c, runs[c]>>

\* A Run has returned after its registry secrets could not be provisioned
C14_Witness ==
    \E c \in Driven :
        /\ pc[c] = "returned"
        /\ runErr[c] = "secret"
        /\ calls[c] = <<"delete", "secret">>
        /\ jobError[c] = "create secret error"

\* C15: a failure of output extraction sets job.Error to its message and
\* does not end complete(): saveContainerLog is attempted after it; an
\* extraction that succeeds on a Job whose termination message holds valid
\* outputs puts them in the workflow context, where they stay.
C15_ExtractionFailureNotFatal ==
    /\ [](\A c \in Driven :
            /\ (pc[c] = "savelog" /\ harvest[c] = <<"fail">>) =>
                   jobError[c] = ErrOutputs
            /\ (pc[c] = "returned" /\ runErr[c] = "nil") =>
                   /\ calls[c][Len(calls[c])] = "savelog"
                   /\ Len(harvest[c]) = 2
                   /\ harvest[c][1] = "fail" => jobError[c] = ErrOutputs)
    /\ [][\A c \in Driven :
            /\ (/\ pc[c] = "complete"
                /\ harvest'[c] = <<"ok">>
                /\ \E j \in OwnJobs(c) : j.msg = "valid") => "out" \in outputs'[c]
            /\ Harvesting(c) => outputs[c] \subseteq outputs'[c]]_vars

\* Output extraction failed, the log was saved after it, and Run returned
C15_Witness ==
    \E c \in Driven :
        /\ pc[c] = "returned"
        /\ harvest[c] = <<"fail", "ok">>
        /\ jobError[c] = ErrOutputs
        /\ <<c, runs[c]>> \in logs

\* The Job a step removed from the cluster
Gone(j) == \A k \in cluster' : k.owner # j.owner

\* The controller steps of deleting by label: run()'s and the cleanup's
Deletes(c) == (pc[c] = "delete" /\ pc'[c] # "delete") \/ pending'[c] < pending[c]

\* C16: controllers of different job names do not collide: a Job leaves the
\* cluster only in a delete-by-label step of the controller that created it,
\* a Job of an earlier task with another label is never removed, and the Job
\* a successful run() created stays in the cluster until that controller's
\* own cleanup has run.
C16_DifferentNamesDoNotCollide ==
    /\ [][\A j \in cluster :
            Gone(j) =>
                /\ j.owner[1] \in Ctls => Deletes(j.owner[1])
                /\ \E c \in Ctls : j.label = <<JobType, K8sJobName[c]>> /\ Deletes(c)]_vars
    /\ [](\A c \in Ctls :
            (runErr[c] = "nil" /\ pending[c] = scheduled[c]) =>
                \E j \in cluster : j.owner = <<c, runs[c]>>)

\* Both controllers are waiting on their Jobs, which are both in the cluster
C16_Witness ==
    /\ \A c \in Ctls :
          /\ pc[c] \in {"wait_start", "wait_end"}
          /\ \E j \in cluster : j.owner = <<c, runs[c]>>
    /\ \E c \in Ctls : removed[c] # {}

\* The cleanup of an earlier Run deletes the Job of the Run in progress
CleanupRemovesLiveJob(c) ==
    /\ Cleanup(c)
    /\ \A j \in cluster' : j.owner # <<c, runs[c]>>

\* The Run in progress has created its Job and the Job is in the cluster
OwnJobLive(c) ==
    /\ InRun(c)
    /\ runErr[c] = "nil"
    /\ \E j \in cluster : j.owner = <<c, runs[c]>>

\* C17: run()'s delete-then-create is not mutually exclusive with the
\* deletions of another party on the same label: whenever the cleanup of an
\* earlier Run is still pending while a later Run has created its Job, the
\* cleanup can execute and remove that Job, whatever the later Run is doing.
C17_DeleteAfterCreateNotExcluded ==
    \A c \in Driven :
        (pending[c] > 0 /\ OwnJobLive(c)) => ENABLED CleanupRemovesLiveJob(c)

\* The later Run is about to wait on a Job the earlier cleanup has removed
C17_Witness ==
    \E c \in Driven :
        /\ runs[c] = 2
        /\ pc[c] \in {"wait", "wait_start"}
        /\ runErr[c] = "nil"
        /\ Called(c, "create")
        /\ OwnJobs(c) = {}

\* C18: the cleanup deletion is detached and not awaited: the step in which
\* Run returns from complete() schedules the cleanup and leaves the cluster
\* as it is, and the step in which the cleanup executes changes neither
\* job.Status nor job.Error nor the position of the Run.
C18_CleanupDetached ==
    [][\A c \in Driven :
          /\ (pc[c] = "savelog" /\ pc'[c] = "returned") =>
                 /\ pending'[c] = pending[c] + 1
                 /\ cluster' = cluster
          /\ pending'[c] < pending[c] =>
                 /\ status'[c] = status[c]
                 /\ jobError'[c] = jobError[c]
                 /\ pc'[c] = pc[c]]_vars

\* Run has returned, its cleanup has not executed, its Job is in the cluster
C18_Witness ==
    \E c \in Driven :
        /\ pc[c] = "returned"
        /\ runErr[c] = "nil"
        /\ pending[c] = scheduled[c]
        /\ pending[c] > 0
        /\ \E j \in cluster : j.owner = <<c, runs[c]>>

\* C19: within a Run ack() is called after waitJobStart has returned Running
\* and before waitPlainJobEnd is entered: the acknowledgement observes
\* job.Status = Running, never a terminal status, it has not happened while
\* waitJobStart is polling, and waitPlainJobEnd is entered only after it.
C19_AckBetweenStartAndEnd ==
    \A c \in Driven :
        /\ pc[c] \in {"wait", "wait_start"} => ackCount[c] = 0
        /\ pc[c] = "wait_end" =>
              /\ ackCount[c] = 1
              /\ startStatus[c] = StatusRunning
              /\ status[c] = StatusRunning
        /\ ackCount[c] > 0 =>
              /\ ackStatus[c] = StatusRunning
              /\ ackStatus[c] \notin TerminalStatuses
              /\ startStatus[c] = StatusRunning

\* waitPlainJobEnd is polling after the acknowledgement of a running Job
C19_Witness ==
    \E c \in Driven :
        /\ pc[c] = "wait_end"
        /\ ackCount[c] = 1
        /\ ackStatus[c] = StatusRunning
        /\ status[c] = StatusRunning

\* C20: under concurrent callers GetHookSecret computes the secret at most
\* once, and exactly once before any call has returned; a caller returns
\* only when the initialisation has finished, and all calls that return,
\* concurrent and later ones, return the same value, the stored secret.
C20_SecretComputedOnce ==
    /\ hook.encrypts <= 1
    /\ Cardinality(hook.rets) <= 1
    /\ hook.rets # {} => (hook.done /\ hook.encrypts = 1 /\ hook.rets = {hook.secret})
    /\ \A g \in HookCallers :
          /\ HookAt(g, "return") => (hook.done /\ hook.encrypts = 1)
          /\ HookAt(g, "store") => (hook.m = g /\ ~hook.done)

\* Every goroutine has made all its calls and got the one computed token
C20_Witness ==
    /\ \A g \in HookCallers :
          HookAt(g, "idle") /\ hook.calls[g] = MaxHookCalls
    /\ hook.encrypts = 1
    /\ hook.secret \in AesResults
    /\ hook.rets = {hook.secret}

====
